---- MODULE Spec2Model ----
(***************************************************************************)
(* Model of the Proauc short-video pipeline: the Clip Finder               *)
(* (fetchers/youtube_fetcher.py), the Video Composer (editor.py) and the   *)
(* orchestration in main.py.                                               *)
(*                                                                         *)
(* Text is modelled as a sequence of one-character strings so that         *)
(* matching, lower-casing and digit conversion are computed character by   *)
(* character.  Durations are whole seconds.                                *)
(***************************************************************************)
EXTENDS Integers, Sequences, FiniteSets, TLC

VARIABLES
    call,          \* last call of a pure helper: [fn, arg, result]
    ledgerFile,    \* contents of data/seen_videos.json (a set of video ids)
    pc,            \* per Finder run: position in search_youtube_short_videos
    seen_videos,   \* per Finder run: the local seen_videos
    chosen,        \* per Finder run: the list returned (as a set of ids)
    mainPc,        \* position of main()
    mainExc,       \* exception that ended main(), or "none"
    uploaded,      \* file path handed to upload_video, or "none"
    composePc,     \* position of compose_short
    clip_paths,    \* argument of compose_short: the clips, by duration
    step,          \* index of the clip the current loop is at (1-based)
    transcripts,   \* compose_short local
    tmpFiles,      \* temporary .wav files present on disk (by clip index)
    clips,         \* compose_short local: durations of the labelled clips
    total,         \* compose_short local
    outputFile,    \* whether output/final_short.mp4 has been written
    composeExc     \* exception that ended compose_short, or "none"

vars == <<call, ledgerFile, pc, seen_videos, chosen, mainPc, mainExc,
          uploaded, composePc, clip_paths, step, transcripts, tmpFiles,
          clips, total, outputFile, composeExc>>

pureVars    == <<call>>
finderVars  == <<ledgerFile, pc, seen_videos, chosen>>
mainVars    == <<mainPc, mainExc, uploaded>>
composeVars == <<composePc, clip_paths, step, transcripts, tmpFiles,
                 clips, total, outputFile, composeExc>>

(***************************************************************************)
(* Bounds of the model                                                     *)
(***************************************************************************)
MaxFields   == 3    \* fields in a generated duration string
MaxTextLen  == 8    \* longest text handed to dynamic_font_size
MaxBaseSize == 10   \* largest base_size
MaxCharLimit == 4   \* largest char_limit
MaxRuns     == 2    \* Finder runs sharing one ledger file
MaxPaths    == 3    \* clips handed to compose_short

(***************************************************************************)
(* Program constants                                                       *)
(***************************************************************************)
MIN_CLIPS == 4
MAX_CLIPS == 8
MAX_TOTAL_DURATION == 58
PerClipCap == 58
ClipTrimCap == 15

(***************************************************************************)
(* Generic helpers on sequences                                            *)
(***************************************************************************)
Min(a, b) == IF a <= b THEN a ELSE b

RECURSIVE SumSeq(_)
SumSeq(s) == IF s = <<>> THEN 0 ELSE s[1] + SumSeq(Tail(s))

RECURSIVE Concat(_)
Concat(ss) == IF ss = <<>> THEN <<>> ELSE ss[1] \o Concat(Tail(ss))

SeqsUpTo(S, n) == UNION { [1..k -> S] : k \in 0..n }

(***************************************************************************)
(* parse_iso_duration                                                      *)
(***************************************************************************)
Digits == {"0", "1", "2", "3", "4", "5", "6", "7", "8", "9"}

DigitVal(c) ==
    CASE c = "0" -> 0 [] c = "1" -> 1 [] c = "2" -> 2 [] c = "3" -> 3
      [] c = "4" -> 4 [] c = "5" -> 5 [] c = "6" -> 6 [] c = "7" -> 7
      [] c = "8" -> 8 [] c = "9" -> 9

\* int(): base-10 value of a non-empty digit string
RECURSIVE ToInt(_)
ToInt(ds) ==
    IF ds = <<>> THEN 0
    ELSE ToInt(SubSeq(ds, 1, Len(ds) - 1)) * 10 + DigitVal(ds[Len(ds)])

\* index just after the longest run of digits of s that starts at p (\d+ is greedy)
RECURSIVE DigitRunEnd(_, _)
DigitRunEnd(s, p) ==
    IF p <= Len(s) /\ s[p] \in Digits THEN DigitRunEnd(s, p + 1) ELSE p

\* the optional group (?:(\d+)U)? tried at position p:
\* [val |-> captured digits or <<>> when the group did not take part, next |-> position after]
MatchGroup(s, p, unit) ==
    LET e == DigitRunEnd(s, p) IN
    IF e > p /\ e <= Len(s) /\ s[e] = unit
    THEN [val |-> SubSeq(s, p, e - 1), next |-> e + 1]
    ELSE [val |-> <<>>, next |-> p]

\* re.match anchors the pattern at the start of the string only
ReMatch(s) == Len(s) >= 2 /\ s[1] = "P" /\ s[2] = "T"

parse_iso_duration(duration_str) ==
    IF ~ReMatch(duration_str) THEN 0
    ELSE LET h == MatchGroup(duration_str, 3, "H")
             m == MatchGroup(duration_str, h.next, "M")
             s == MatchGroup(duration_str, m.next, "S")
             hours   == IF h.val # <<>> THEN ToInt(h.val) ELSE 0
             minutes == IF m.val # <<>> THEN ToInt(m.val) ELSE 0
             seconds == IF s.val # <<>> THEN ToInt(s.val) ELSE 0
         IN hours * 3600 + minutes * 60 + seconds

(***************************************************************************)
(* dynamic_font_size: only len(text) is read, so text is given by length.  *)
(* min(1.0, char_limit/len) is char_limit/len on the branch that reaches   *)
(* it (len > char_limit), and int() truncates                              *)
(* base_size * (0.8 + 0.2 * char_limit / len)                              *)
(*   = base_size * (4*len + char_limit) / (5*len).                         *)
(***************************************************************************)
\* variant: the interpolation runs down to 70% instead of 80%
dynamic_font_size_floor70(textLen, base_size, char_limit) ==
    IF textLen <= char_limit THEN base_size
    ELSE LET shrinkNum == Min(textLen, char_limit)
         IN (base_size * (7 * textLen + 3 * shrinkNum)) \div (10 * textLen)

dynamic_font_size(textLen, base_size, char_limit) ==
    IF textLen <= char_limit THEN base_size
    ELSE LET shrinkNum == Min(textLen, char_limit)   \* shrink_factor = shrinkNum / textLen
         IN (base_size * (4 * textLen + shrinkNum)) \div (5 * textLen)

(***************************************************************************)
(* Relevance filter of the Finder                                          *)
(***************************************************************************)
\* str.lower()
LowerChar(c) ==
    CASE c = "A" -> "a" [] c = "B" -> "b" [] c = "R" -> "r" [] OTHER -> c

Lower(s) == [i \in 1..Len(s) |-> LowerChar(s[i])]

\* the `in` operator on strings
IsSubstring(t, s) ==
    \E i \in 0..(Len(s) - Len(t)) : SubSeq(s, i + 1, i + Len(t)) = t

\* " ".join(list)
RECURSIVE JoinSpace(_)
JoinSpace(ss) ==
    IF ss = <<>> THEN <<>>
    ELSE IF Len(ss) = 1 THEN ss[1]
    ELSE ss[1] \o <<" ">> \o JoinSpace(Tail(ss))

tags_combined(title, tags_in_video) ==
    Lower(title \o <<" ">> \o JoinSpace(tags_in_video))

\* any(tag in tags_combined for tag in tags): the query tags are used as given
IsRelevant(tags, title, tags_in_video) ==
    \E i \in 1..Len(tags) : IsSubstring(tags[i], tags_combined(title, tags_in_video))

(***************************************************************************)
(* Inputs of the pure helpers                                              *)
(***************************************************************************)
DigitStrs == { <<"1">>, <<"2">>, <<"4", "5">> }
Units     == {"H", "M", "S"}
Prefixes  == { <<"P", "T">>, <<"P">>, <<"x", "P", "T">> }
Suffixes  == { <<>>, <<"x">>, <<"S">> }
Fields    == { ds \o <<u>> : ds \in DigitStrs, u \in Units }

DurationStrings ==
    { p \o Concat(fs) \o x : p \in Prefixes, fs \in SeqsUpTo(Fields, MaxFields),
                             x \in Suffixes }

Words      == { <<"a">>, <<"A">>, <<"b">>, <<"a", "b">>, <<"A", "B">>, <<"b", " ", "a">> }
MaxQueryTags == 2
QueryTags  == SeqsUpTo(Words, MaxQueryTags)
TagLists   == { <<>>, <<<<"a">>>>, <<<<"B">>>>, <<<<"b">>, <<"A">>>> }

\* no call of a helper, and a call before and after the helper has run
NoCall == [fn |-> "none", arg |-> <<>>, done |-> FALSE, result |-> 0]

Pending(fn, arg) == [fn |-> fn, arg |-> arg, done |-> FALSE, result |-> 0]

Returned(c, r) == [c EXCEPT !.done = TRUE, !.result = r]

PendingCalls ==
    { Pending("parse_iso_duration", s) : s \in DurationStrings }
    \cup { Pending("dynamic_font_size", <<n, b, c>>) :
             n \in 0..MaxTextLen, b \in 1..MaxBaseSize, c \in 1..MaxCharLimit }
    \cup { Pending("relevant", <<q, t, vt>>) :
             q \in QueryTags, t \in Words, vt \in TagLists }

CallParse ==
    /\ call.fn = "parse_iso_duration" /\ ~call.done
    /\ call' = Returned(call, parse_iso_duration(call.arg))
    /\ UNCHANGED <<finderVars, mainVars, composeVars>>

CallFontSize ==
    /\ call.fn = "dynamic_font_size" /\ ~call.done
    /\ call' = Returned(call, dynamic_font_size(call.arg[1], call.arg[2], call.arg[3]))
    /\ UNCHANGED <<finderVars, mainVars, composeVars>>

\* the test at lines 119-122, 1 when the candidate is kept
CallRelevant ==
    /\ call.fn = "relevant" /\ ~call.done
    /\ call' = Returned(call, IF IsRelevant(call.arg[1], call.arg[2], call.arg[3])
                              THEN 1 ELSE 0)
    /\ UNCHANGED <<finderVars, mainVars, composeVars>>

(***************************************************************************)
(* Clip Finder: search_youtube_short_videos, called as main() means to     *)
(* call it.  The platform's videos are a fixed catalogue; a search returns *)
(* any part of it.  Words are shortened to one or two letters.             *)
(***************************************************************************)
Runs == 1..MaxRuns

FinderTags == << <<"a">>, <<"b">> >>
max_total_duration == 58
min_likes == 1000
max_clips == MAX_CLIPS

Catalogue ==
    [ v1 |-> [title |-> <<"A">>, tags |-> <<>>, duration |-> <<"P","T","3","0","S">>, likeCount |-> 2000],
      v2 |-> [title |-> <<"x">>, tags |-> << <<"B">> >>, duration |-> <<"P","T","3","0","S">>, likeCount |-> 1000],
      v3 |-> [title |-> <<"a","b">>, tags |-> <<>>, duration |-> <<"P","T","5","8","S">>, likeCount |-> 5000],
      v4 |-> [title |-> <<"b"," ","a">>, tags |-> <<>>, duration |-> <<"P","T","2","0","S">>, likeCount |-> 1500],
      v5 |-> [title |-> <<"a">>, tags |-> <<>>, duration |-> <<"P","T","1","0","S">>, likeCount |-> 999],
      v6 |-> [title |-> <<"a">>, tags |-> <<>>, duration |-> <<"P","T","1","M","2","S">>, likeCount |-> 3000],
      v7 |-> [title |-> <<"a">>, tags |-> <<>>, duration |-> <<"P","1","S">>, likeCount |-> 3000],
      v8 |-> [title |-> <<"x">>, tags |-> << <<"x">> >>, duration |-> <<"P","T","9","S">>, likeCount |-> 3000] ]

VideoIds == DOMAIN Catalogue

Duration(v) == parse_iso_duration(Catalogue[v].duration)

RECURSIVE TotalDuration(_)
TotalDuration(S) ==
    IF S = {} THEN 0
    ELSE LET v == CHOOSE x \in S : TRUE IN Duration(v) + TotalDuration(S \ {v})

\* load_seen_videos: a missing file is the empty set
load_seen_videos == ledgerFile

\* variant: the `if video_id in seen_videos: continue` test is missing
PassesFilters_ignoring_seen(v, seen) ==
    /\ ~(Catalogue[v].likeCount < min_likes)
    /\ ~(Duration(v) = 0 \/ Duration(v) > PerClipCap)
    /\ IsRelevant(FinderTags, Catalogue[v].title, Catalogue[v].tags)

\* the filter loop: the videos of the response that are appended to items
PassesFilters(v, seen) ==
    /\ v \notin seen
    /\ ~(Catalogue[v].likeCount < min_likes)
    /\ ~(Duration(v) = 0 \/ Duration(v) > PerClipCap)
    /\ IsRelevant(FinderTags, Catalogue[v].title, Catalogue[v].tags)

FilterItems(response, seen) == { v \in response : PassesFilters(v, seen) }

\* random.shuffle(items); items[:max_clips] -- any max_clips of them
Selections(items) ==
    { c \in SUBSET items : Cardinality(c) = Min(max_clips, Cardinality(items)) }

\* variant: only the newly chosen ids are saved
UsedIds_chosen_only(seen, ch) == ch

\* used = seen_videos.union(chosen ids)
UsedIds(seen, ch) == seen \cup ch

\* lines 59-64: the API-key check and the load of the ledger
FinderLoad(r) ==
    /\ pc[r] = "idle"
    /\ \E hasKey \in BOOLEAN :
         IF hasKey
         THEN /\ seen_videos' = [seen_videos EXCEPT ![r] = load_seen_videos]
              /\ pc' = [pc EXCEPT ![r] = "loaded"]
              /\ UNCHANGED chosen
         ELSE /\ pc' = [pc EXCEPT ![r] = "done"]
              /\ chosen' = [chosen EXCEPT ![r] = {}]
              /\ UNCHANGED seen_videos
    /\ UNCHANGED <<ledgerFile, pureVars, mainVars, composeVars>>

\* lines 66-140: search, details, filters, shuffle and cut
FinderSelect(r) ==
    /\ pc[r] = "loaded"
    /\ \E response \in SUBSET VideoIds :
         LET items == FilterItems(response, seen_videos[r]) IN
         IF response = {} \/ items = {}
         THEN /\ chosen' = [chosen EXCEPT ![r] = {}]
              /\ pc' = [pc EXCEPT ![r] = "done"]
         ELSE /\ \E c \in Selections(items) : chosen' = [chosen EXCEPT ![r] = c]
              /\ pc' = [pc EXCEPT ![r] = "chosen"]
    /\ UNCHANGED <<ledgerFile, seen_videos, pureVars, mainVars, composeVars>>

\* lines 142-149: save_seen_videos(used) and return chosen
FinderSave(r) ==
    /\ pc[r] = "chosen"
    /\ ledgerFile' = UsedIds(seen_videos[r], chosen[r])
    /\ pc' = [pc EXCEPT ![r] = "done"]
    /\ UNCHANGED <<seen_videos, chosen, pureVars, mainVars, composeVars>>

\* no other run is between its start and its return
Alone(r) == \A o \in Runs \ {r} : pc[o] \in {"idle", "done"}

(***************************************************************************)
(* main()                                                                  *)
(***************************************************************************)
FinderParams     == {"tags", "max_results", "max_total_duration", "min_likes", "max_clips"}
MainFinderKwargs == {"tags", "max_results", "max_total_duration", "min_clips", "max_clips"}

\* a call binds its keyword arguments to the parameters of the signature
BindsKeywords(kwargs, params) == kwargs \subseteq params

\* main(): the call of the Finder at lines 20-26 raises TypeError because
\* min_clips is not a parameter of search_youtube_short_videos, and nothing
\* in main() catches it; the statements after the call are never reached.
MainRun ==
    /\ mainPc = "start"
    /\ IF BindsKeywords(MainFinderKwargs, FinderParams)
       THEN /\ mainPc' = "finder"
            /\ mainExc' = "none"
       ELSE /\ mainPc' = "raised"
            /\ mainExc' = "TypeError"
    /\ UNCHANGED <<uploaded, pureVars, finderVars, composeVars>>

(***************************************************************************)
(* Video Composer: compose_short                                           *)
(***************************************************************************)
ClipDurations == {20, 28, 30}

\* outcomes of one extract_audio_transcript call
TranscribeOutcomes == {"ok", "audio_raises", "whisper_raises"}

\* extract_audio_transcript: the temporary file exists from line 39 on and
\* os.remove (line 47) is reached only when nothing before it raised
TmpLeftBehind(outcome) == outcome # "ok"

\* variant: the loop stops only when the budget is overdrawn
BudgetExhausted_overdrawn(remaining) == remaining < 0

\* `if remaining <= 0: break`
BudgetExhausted(remaining) == remaining <= 0

\* duration of `labelled`: label_clip is given make_vertical_clip(path), which
\* opens the file again, so the subclip taken at line 163 is not part of it
LabelledDuration(fileDuration, trimmedDuration) == fileDuration

\* str objects accept no new attributes (line 197)
StrAcceptsAttribute == FALSE

ComposeCall ==
    /\ composePc = "idle"
    /\ \E paths \in SeqsUpTo(ClipDurations, MaxPaths) : clip_paths' = paths
    /\ transcripts' = <<>>
    /\ clips' = <<>>
    /\ total' = 0
    /\ step' = 1
    /\ composePc' = "transcribing"
    /\ UNCHANGED <<tmpFiles, outputFile, composeExc, pureVars, finderVars, mainVars>>

\* one iteration of the loop at lines 143-149
Transcribe ==
    /\ composePc = "transcribing"
    /\ step <= Len(clip_paths)
    /\ \E outcome \in TranscribeOutcomes :
         /\ tmpFiles' = IF TmpLeftBehind(outcome) THEN tmpFiles \cup {step} ELSE tmpFiles
         /\ transcripts' = Append(transcripts, IF outcome = "ok" THEN "text" ELSE "")
    /\ step' = step + 1
    /\ UNCHANGED <<composePc, clip_paths, clips, total, outputFile, composeExc,
                   pureVars, finderVars, mainVars>>

\* lines 151-152: the two generator calls; an exception is not caught
GenerateCaptions ==
    /\ composePc = "transcribing"
    /\ step > Len(clip_paths)
    /\ \E ok \in BOOLEAN :
         IF ok THEN /\ composePc' = "building"
                    /\ composeExc' = "none"
               ELSE /\ composePc' = "raised"
                    /\ composeExc' = "GeneratorError"
    /\ step' = 1
    /\ UNCHANGED <<clip_paths, transcripts, tmpFiles, clips, total, outputFile,
                   pureVars, finderVars, mainVars>>

\* one iteration of the loop at lines 156-168
BuildClip ==
    /\ composePc = "building"
    /\ step <= Len(clip_paths)
    /\ LET remaining == MAX_TOTAL_DURATION - total
           max_clip  == Min(ClipTrimCap, remaining)
           trimmed   == IF clip_paths[step] > max_clip THEN max_clip ELSE clip_paths[step]
           labelled  == LabelledDuration(clip_paths[step], trimmed)
       IN IF BudgetExhausted(remaining)
          THEN /\ composePc' = "built"
               /\ UNCHANGED <<clips, total, step>>
          ELSE /\ clips' = Append(clips, labelled)
               /\ total' = total + labelled
               /\ step' = step + 1
               /\ UNCHANGED composePc
    /\ UNCHANGED <<clip_paths, transcripts, tmpFiles, outputFile, composeExc,
                   pureVars, finderVars, mainVars>>

\* the loop at line 156 runs out of clips
BuildEnd ==
    /\ composePc = "building"
    /\ step > Len(clip_paths)
    /\ composePc' = "built"
    /\ UNCHANGED <<clip_paths, step, transcripts, tmpFiles, clips, total, outputFile,
                   composeExc, pureVars, finderVars, mainVars>>

\* lines 170-199
Render ==
    /\ composePc = "built"
    /\ IF clips = <<>>
       THEN /\ composePc' = "raised"
            /\ composeExc' = "RuntimeError"
            /\ UNCHANGED outputFile
       ELSE \E written \in BOOLEAN :
              IF ~written
              THEN /\ composePc' = "raised"
                   /\ composeExc' = "RenderError"
                   /\ UNCHANGED outputFile
              ELSE /\ outputFile' = TRUE
                   /\ IF StrAcceptsAttribute
                      THEN /\ composePc' = "returned"
                           /\ composeExc' = "none"
                      ELSE /\ composePc' = "raised"
                           /\ composeExc' = "AttributeError"
    /\ UNCHANGED <<clip_paths, step, transcripts, tmpFiles, clips, total,
                   pureVars, finderVars, mainVars>>

(***************************************************************************)
(* Specifications                                                          *)
(***************************************************************************)
InitRest ==
    /\ ledgerFile = {}
    /\ pc = [r \in Runs |-> "idle"]
    /\ seen_videos = [r \in Runs |-> {}]
    /\ chosen = [r \in Runs |-> {}]
    /\ mainPc = "start"
    /\ mainExc = "none"
    /\ uploaded = "none"
    /\ composePc = "idle"
    /\ clip_paths = <<>>
    /\ step = 1
    /\ transcripts = <<>>
    /\ tmpFiles = {}
    /\ clips = <<>>
    /\ total = 0
    /\ outputFile = FALSE
    /\ composeExc = "none"

Init ==
    /\ call = NoCall
    /\ InitRest

\* the pipeline process: main() and the Composer
Next ==
    \/ MainRun
    \/ ComposeCall
    \/ Transcribe
    \/ GenerateCaptions
    \/ BuildClip
    \/ BuildEnd
    \/ Render

Spec == Init /\ [][Next]_vars

\* Finder runs that follow one another, as successive runs of the program do
NextFinder ==
    \E r \in Runs :
        /\ Alone(r)
        /\ \/ FinderLoad(r)
           \/ FinderSelect(r)
           \/ FinderSave(r)

SpecFinder == Init /\ [][NextFinder]_vars

\* Finder runs of processes started independently: their steps interleave
NextRace ==
    \E r \in Runs :
        \/ FinderLoad(r)
        \/ FinderSelect(r)
        \/ FinderSave(r)

SpecRace == Init /\ [][NextRace]_vars

\* calls of the pure helpers
NextPure ==
    \/ CallParse
    \/ CallFontSize
    \/ CallRelevant

InitPure ==
    /\ call \in PendingCalls
    /\ InitRest

SpecPure == InitPure /\ [][NextPure]_vars

(***************************************************************************)
(* Properties of the pure helpers (checked under SpecPure)                 *)
(***************************************************************************)
\* the strings PT#H#M#S: fields in the order H, M, S, each at most once
UnitRank(u) == CASE u = "H" -> 1 [] u = "M" -> 2 [] u = "S" -> 3

UnitSeconds(u) == CASE u = "H" -> 3600 [] u = "M" -> 60 [] u = "S" -> 1

OrderedFieldSeqs ==
    { fs \in SeqsUpTo(Fields, MaxFields) :
        \A i \in 1..(Len(fs) - 1) :
            UnitRank(fs[i][Len(fs[i])]) < UnitRank(fs[i + 1][Len(fs[i + 1])]) }

FieldSeconds(f) == ToInt(SubSeq(f, 1, Len(f) - 1)) * UnitSeconds(f[Len(f)])

RECURSIVE FieldsSeconds(_)
FieldsSeconds(fs) ==
    IF fs = <<>> THEN 0 ELSE FieldSeconds(fs[1]) + FieldsSeconds(Tail(fs))

IsoForms(s) == { fs \in OrderedFieldSeqs : s = <<"P", "T">> \o Concat(fs) }

\* C7: parse_iso_duration returns hours*3600 + minutes*60 + seconds for every
\* string PT#H#M#S (fields optional, absent fields 0) and 0 for every other
\* string, trailing text after a valid prefix and fields out of order included.
C7_ParseIsoDuration ==
    call.fn = "parse_iso_duration" /\ call.done =>
        IF IsoForms(call.arg) # {}
        THEN \A fs \in IsoForms(call.arg) : call.result = FieldsSeconds(fs)
        ELSE call.result = 0

\* the part of C7 about well-formed strings alone
C7_WellFormedValue ==
    call.fn = "parse_iso_duration" /\ call.done =>
        \A fs \in IsoForms(call.arg) : call.result = FieldsSeconds(fs)

\* C6: the relevance filter keeps a candidate iff some query tag is a
\* substring of the title-plus-tags text when both sides are lower-cased.
C6_CaseInsensitiveMatch ==
    call.fn = "relevant" /\ call.done =>
        LET tags  == call.arg[1]
            text  == call.arg[2] \o <<" ">> \o JoinSpace(call.arg[3])
        IN (call.result = 1) <=>
               \E i \in 1..Len(tags) : IsSubstring(Lower(tags[i]), Lower(text))

\* C8 as stated: base_size is returned unchanged up to char_limit; beyond it the
\* result is never below 0.8*base_size; at length 2*char_limit it is strictly
\* less than base_size and at least 0.8*base_size.
C8_FontSizeFloorExact ==
    call.fn = "dynamic_font_size" /\ call.done =>
        LET n == call.arg[1]
            b == call.arg[2]
            c == call.arg[3]
            r == call.result
        IN /\ (n <= c => r = b)
           /\ (n > c => 5 * r >= 4 * b)
           /\ (n = 2 * c => r < b /\ 5 * r >= 4 * b)

\* C8 (amended): base_size is returned unchanged up to char_limit; beyond it the
\* result is never below 0.8*base_size rounded down to a whole number and never
\* above base_size; at length 2*char_limit it is strictly less than base_size.
C8_FontSizeFloorTruncated ==
    call.fn = "dynamic_font_size" /\ call.done =>
        LET n == call.arg[1]
            b == call.arg[2]
            c == call.arg[3]
            r == call.result
        IN /\ (n <= c => r = b)
           /\ (n > c => r >= (4 * b) \div 5 /\ r <= b)
           /\ (n = 2 * c => r < b /\ r >= (4 * b) \div 5)

\* a text of twice char_limit whose size is truncated below 0.8*base_size
C8_Witness ==
    /\ call.fn = "dynamic_font_size" /\ call.done
    /\ call.arg[1] = 2 * call.arg[3]
    /\ call.result < call.arg[2]
    /\ 5 * call.result < 4 * call.arg[2]
    /\ call.result = (4 * call.arg[2]) \div 5

(***************************************************************************)
(* Properties of the Finder                                                *)
(***************************************************************************)
\* C3: every non-empty selection returned by the Finder has a total duration
\* of at most max_total_duration and between MIN_CLIPS and max_clips members.
C3_SelectionWithinCeiling ==
    \A r \in Runs :
        (pc[r] \in {"chosen", "done"} /\ chosen[r] # {}) =>
            /\ TotalDuration(chosen[r]) <= max_total_duration
            /\ Cardinality(chosen[r]) >= MIN_CLIPS
            /\ Cardinality(chosen[r]) <= max_clips

\* C4 (checked under SpecFinder, runs one after another): the ids a run
\* returns are not in the ledger file as it was before the run saved, they are
\* in the file once the run has ended, and no id is returned by two runs.
C4_NoIdReturnedTwice ==
    \A r \in Runs :
        /\ pc[r] = "chosen" => chosen[r] \cap ledgerFile = {}
        /\ pc[r] = "done" => chosen[r] \subseteq ledgerFile
        /\ \A o \in Runs \ {r} : chosen[r] \cap chosen[o] = {}

\* two runs have ended and each returned videos
C4_Witness ==
    \E r \in Runs : \E o \in Runs \ {r} :
        /\ pc[r] = "done" /\ pc[o] = "done"
        /\ chosen[r] # {} /\ chosen[o] # {}
        /\ seen_videos[o] = chosen[r]

\* C9 as stated (checked under SpecRace, steps of the runs interleave): an id
\* written to the ledger file is in the file in every later state.
C9_LedgerNeverShrinks == [][ledgerFile \subseteq ledgerFile']_vars

\* C9 (amended): a run's save keeps every id of the file when the file still
\* holds what that run loaded, that is when no other run saved in between.
C9_SaveKeepsLoadedLedger ==
    [][\A r \in Runs :
          (pc[r] = "chosen" /\ pc'[r] = "done" /\ ledgerFile = seen_videos[r])
              => ledgerFile \subseteq ledgerFile']_vars

\* a run that loaded a non-empty ledger has saved, and the file holds the
\* ids it loaded and the ids it chose
C9_Witness ==
    \E r \in Runs :
        /\ pc[r] = "done"
        /\ seen_videos[r] # {}
        /\ chosen[r] # {}
        /\ ledgerFile = seen_videos[r] \cup chosen[r]

(***************************************************************************)
(* Properties of the Composer and of main()                                *)
(***************************************************************************)
\* C1: after every iteration of the clip-processing loop the durations of the
\* accepted clips sum to at most MAX_TOTAL_DURATION.
C1_TotalWithinCeiling ==
    /\ total <= MAX_TOTAL_DURATION
    /\ SumSeq(clips) <= MAX_TOTAL_DURATION

\* accumulated duration before the i-th accepted clip
Accumulated(i) == SumSeq(SubSeq(clips, 1, i - 1))

AfterBuildLoop == composePc = "built"

ThreeTwenties == clip_paths = <<20, 20, 20>>

\* C2 as stated: no clip is accepted once the accumulated duration has
\* reached the ceiling, and of clips [20, 20, 20] exactly 2 are accepted.
C2_TwoOfThreeAccepted ==
    /\ \A i \in 1..Len(clips) : Accumulated(i) < MAX_TOTAL_DURATION
    /\ (ThreeTwenties /\ AfterBuildLoop) => Len(clips) = 2

\* C2 (amended): no clip is accepted once the accumulated duration has reached
\* the ceiling, and of clips [20, 20, 20] all 3 are accepted, the ceiling not
\* being reached when the third is examined.
C2_AcceptedWhileBudgetLeft ==
    /\ \A i \in 1..Len(clips) : Accumulated(i) < MAX_TOTAL_DURATION
    /\ (ThreeTwenties /\ AfterBuildLoop) => Len(clips) = 3

C2_Witness == ThreeTwenties /\ AfterBuildLoop /\ Len(clips) = 3

\* C10: when a clip's transcription step has ended, with a transcript or with
\* the empty transcript substituted after a failure, its temporary audio file
\* is gone.
C10_NoTempFileLeft ==
    \A i \in 1..Len(transcripts) : i \notin tmpFiles

\* C5: a run of main() in which every external call succeeds raises in no
\* stage and hands the rendered file to the Uploader.
C5_MainReachesUpload ==
    mainPc # "start" =>
        /\ mainExc = "none"
        /\ mainPc = "returned" => uploaded = "output/final_short.mp4"

\* compose_short hands the rendered path back to its caller
C5_ComposeReturnsPath ==
    outputFile => composePc # "raised"

====
